---- MODULE Spec2Model ----
(***************************************************************************)
(* Model of aeron-samples/src/main/cpp/ModifiedThroughput.cpp: the command *)
(* line parsed into Settings, the main thread's claim-and-commit send      *)
(* loop, the poll thread, the optional rate-reporter thread, the SIGINT    *)
(* handler and the scope-exit cleanup.  The messaging library (tryClaim,   *)
(* poll, the arrival of fragments), the user at the prompt and the signal  *)
(* are the environment: their outcomes are chosen nondeterministically.    *)
(***************************************************************************)
EXTENDS Integers, Sequences, FiniteSets, TLC

(***************************************************************************)
(* Bounds of the model.                                                    *)
(***************************************************************************)
\* options present on one command line
MaxArgs == 1
\* largest stream id / message count given on the command line
MaxStreamId == 2
MaxMessages == 2
\* send runs (answers "yes" at the prompt are cut off after this many runs)
MaxRuns == 2
\* the back pressure counter saturates here (the code's counter is 64 bit)
MaxBackPressure == 2

(***************************************************************************)
(* Option characters, lines 39-50.                                         *)
(***************************************************************************)
optHelp == "h"
optProgress == "P"
pOptStreamId == "s"
sOptStreamId == "s"
optMessages == "m"
optLinger == "l"
optLength == "L"
optFrags == "f"
optSubscriptionDelay == "d"

INT32_MAX == 2147483647
SIZEOF_INT64 == 8
LINGER_MAX == 60 * 60 * 1000

(***************************************************************************)
(* Defaults of struct Settings, lines 52-65.  The samples' configuration   *)
(* header sets the real values; the model uses small stand-ins.            *)
(***************************************************************************)
DEFAULT_STREAM_ID == 1
DEFAULT_NUMBER_OF_MESSAGES == 2
DEFAULT_MESSAGE_LENGTH == 8
DEFAULT_LINGER_TIMEOUT_MS == 0
DEFAULT_FRAGMENT_COUNT_LIMIT == 1
DEFAULT_PUBLICATION_RATE_PROGRESS == FALSE

Settings ==
    [ pStreamId |-> DEFAULT_STREAM_ID,
      sStreamId |-> DEFAULT_STREAM_ID,
      numberOfMessages |-> DEFAULT_NUMBER_OF_MESSAGES,
      messageLength |-> DEFAULT_MESSAGE_LENGTH,
      lingerTimeoutMs |-> DEFAULT_LINGER_TIMEOUT_MS,
      fragmentCountLimit |-> DEFAULT_FRAGMENT_COUNT_LIMIT,
      progress |-> DEFAULT_PUBLICATION_RATE_PROGRESS,
      subscriptionDelay |-> 0 ]

(***************************************************************************)
(* The options main registers with the parser, lines 128-139.  The parser  *)
(* keys its options by character, so the two stream id options, which have *)
(* the same character, are one option.  (The prefix and channel options    *)
(* carry strings that no operation of the model reads.)                    *)
(***************************************************************************)
Options ==
    { optHelp, optProgress, pOptStreamId, sOptStreamId, optMessages, optLength,
      optLinger, optFrags, optSubscriptionDelay }

\* an option as parsed: whether it was given, and its parameters
NotGiven == [present |-> FALSE, params |-> << >>]
Flag == [present |-> TRUE, params |-> << >>]
Arg(v) == [present |-> TRUE, params |-> <<v>>]

\* what the bounded command lines may say for each option
ArgChoices(o) ==
    IF o \in {optHelp, optProgress} THEN {Flag}
    ELSE IF o = pOptStreamId THEN {Arg(v) : v \in 0..MaxStreamId}
    ELSE IF o = optMessages THEN {Arg(v) : v \in 0..MaxMessages}
    ELSE IF o = optLength THEN {Arg(SIZEOF_INT64), Arg(2 * SIZEOF_INT64)}
    ELSE IF o = optFrags THEN {Arg(2)}
    ELSE {Arg(1)}

\* the command lines over the options S, each of them given
GivenOn(S) ==
    { [o \in Options |-> IF o \in S THEN f[o] ELSE NotGiven] :
        f \in { g \in [S -> UNION {ArgChoices(o) : o \in S}] :
                  \A o \in S : g[o] \in ArgChoices(o) } }

CmdLines ==
    UNION { GivenOn(S) : S \in {T \in SUBSET Options : Cardinality(T) <= MaxArgs} }

\* maxPayloadLength() of the publication, decided by the driver's MTU
PayloadLengths == {SIZEOF_INT64, 2 * SIZEOF_INT64}

(***************************************************************************)
(* CommandOption::getParamAsInt / getParamAsLong as parseCmdLine uses      *)
(* them: the default when the option is absent, an exception when the      *)
(* value is out of range.  (INT64_MAX, the upper limit of the message      *)
(* count, is above every value of the model.)                              *)
(***************************************************************************)
getParamAsInt(cl, o, lo, hi, def) ==
    IF ~cl[o].present THEN [ok |-> TRUE, val |-> def]
    ELSE IF cl[o].params[1] < lo \/ cl[o].params[1] > hi
         THEN [ok |-> FALSE, val |-> def]
         ELSE [ok |-> TRUE, val |-> cl[o].params[1]]

getParamAsLong(cl, o, lo, def) ==
    IF ~cl[o].present THEN [ok |-> TRUE, val |-> def]
    ELSE IF cl[o].params[1] < lo
         THEN [ok |-> FALSE, val |-> def]
         ELSE [ok |-> TRUE, val |-> cl[o].params[1]]

(***************************************************************************)
(* parseCmdLine, lines 67-91: "help" (exit(0)), "error" (an option         *)
(* exception) or "ok" with the settings.                                   *)
(***************************************************************************)
parseCmdLine(cl) ==
    LET s == Settings
        p == getParamAsInt(cl, pOptStreamId, 1, INT32_MAX, s.pStreamId)
        q == getParamAsInt(cl, sOptStreamId, 1, INT32_MAX, s.sStreamId)
        m == getParamAsLong(cl, optMessages, 0, s.numberOfMessages)
        L == getParamAsInt(cl, optLength, SIZEOF_INT64, INT32_MAX, s.messageLength)
        l == getParamAsInt(cl, optLinger, 0, LINGER_MAX, s.lingerTimeoutMs)
        f == getParamAsInt(cl, optFrags, 1, INT32_MAX, s.fragmentCountLimit)
        d == getParamAsInt(cl, optSubscriptionDelay, 0, INT32_MAX, s.subscriptionDelay)
    IN  IF cl[optHelp].present THEN [status |-> "help", settings |-> s]
        ELSE IF ~(p.ok /\ q.ok /\ m.ok /\ L.ok /\ l.ok /\ f.ok /\ d.ok)
             THEN [status |-> "error", settings |-> s]
             ELSE [status |-> "ok",
                   settings |->
                     [ pStreamId |-> p.val,
                       sStreamId |-> q.val,
                       numberOfMessages |-> m.val,
                       messageLength |-> L.val,
                       lingerTimeoutMs |-> l.val,
                       fragmentCountLimit |-> f.val,
                       progress |-> cl[optProgress].present,
                       subscriptionDelay |-> d.val ]]

\* (double)a / (double)b, line 305
Ratio(a, b) ==
    IF b = 0
    THEN [kind |-> IF a = 0 THEN "nan" ELSE "inf", num |-> a, den |-> b]
    ELSE [kind |-> "num", num |-> a, den |-> b]

NoRatio == [kind |-> "none", num |-> 0, den |-> 0]

Min(a, b) == IF a < b THEN a ELSE b

\* fragments the model lets wait at the subscription: more than one poll takes
MaxAvailable == DEFAULT_FRAGMENT_COUNT_LIMIT + 1


\* backPressureCount++, line 291, saturating at the model's bound
Inc(c) == IF c < MaxBackPressure THEN c + 1 ELSE c

VARIABLES
    cmdLine,            \* argv, as the parser sees it
    maxPayloadLength,   \* publication->maxPayloadLength()
    settings,           \* Settings settings
    mainPc,             \* position of the main thread
    exitCode,           \* value main returned (or passed to exit); 1 = none yet
    exception,          \* a library exception is propagating / was caught
    errorReported,      \* the tryClaim limit error was written to cerr
    running,            \* std::atomic<bool> running
    printingActive,     \* std::atomic<bool> printingActive
    halt,               \* the rate reporter was halted
    rateReporterThread, \* "null" or "joinable"
    pollThread,         \* "null" or "joinable"
    reporterPc,         \* position of the rate-reporter thread
    pollPc,             \* position of the poll thread
    pubStreamId,        \* stream id given to addPublication (0 = not added)
    subStreamId,        \* stream id given to addSubscription (0 = not added)
    i,                  \* loop index of the send loop
    backPressureCount,  \* std::int64_t backPressureCount
    bufferClaim,        \* id of the claim the BufferClaim wraps, << >> if none
    claims,             \* claims of the publication not yet committed
    committed,          \* messages committed in the current send run
    failedClaims,       \* tryClaim calls of the current run that failed
    claimAttempted,     \* tryClaim was called at least once
    runNo,              \* send runs started
    mainResets,         \* rateReporter.reset() calls made by the main thread
    mainReports,        \* rateReporter.report() calls made by the main thread
    reportedRatio,      \* the back pressure ratio last written to cout
    available,          \* fragments waiting at the subscription
    slept,              \* microseconds of the poll thread's last sleep
    pollStarts,         \* poll threads created
    callback,           \* the reporter thread's printRate call in progress
    printedIn,          \* phases of main in which a printed rate line was fired
    cleanupLog          \* what the scope-exit cleanup did, in order

vars ==
    << cmdLine, maxPayloadLength, settings, mainPc, exitCode, exception,
       errorReported, running, printingActive, halt, rateReporterThread,
       pollThread, reporterPc, pollPc, pubStreamId, subStreamId, i,
       backPressureCount, bufferClaim, claims, committed, failedClaims,
       claimAttempted, runNo, mainResets, mainReports, reportedRatio,
       available, slept, pollStarts, callback, printedIn, cleanupLog >>

\* groups of variables, for UNCHANGED
inputVars == << cmdLine, maxPayloadLength >>
threadVars == << rateReporterThread, pollThread, reporterPc, pollPc, pollStarts >>
sendVars == << i, backPressureCount, bufferClaim, claims, committed, failedClaims,
               claimAttempted >>
runVars == << runNo, mainResets, mainReports, reportedRatio >>
pollVars == << available, slept >>
printVars == << callback, printedIn >>
streamVars == << pubStreamId, subStreamId >>

NoCallback == [saw |-> FALSE, phase |-> "none"]

(***************************************************************************)
(* Where the main thread is, as the rate lines see it: before the first    *)
(* send run, inside a run (from printingActive = true to printingActive =  *)
(* false), waiting between runs, or past the run loop.                     *)
(***************************************************************************)
RunPcs ==
    { "loopTest", "tryClaim", "idle", "write", "commit", "report", "ratio",
      "lingerTest", "linger", "endRun" }
CleanupPcs == { "tidy", "joinPoll", "joinReporter", "return" }
EndPcs == { "returned", "exited" }

MainPhase ==
    IF mainPc \in RunPcs THEN "run"
    ELSE IF mainPc \in {"againTest", "prompt"} THEN "prompt"
    ELSE IF mainPc = "runStart" THEN (IF runNo = 0 THEN "before" ELSE "prompt")
    ELSE IF mainPc \in CleanupPcs \cup EndPcs THEN "after"
    ELSE "before"

Init ==
    /\ cmdLine \in CmdLines
    /\ maxPayloadLength \in PayloadLengths
    /\ settings = Settings
    /\ mainPc = "parse"
    /\ exitCode = 1
    /\ exception = FALSE
    /\ errorReported = FALSE
    /\ running = TRUE
    /\ printingActive = FALSE
    /\ halt = FALSE
    /\ rateReporterThread = "null"
    /\ pollThread = "null"
    /\ reporterPc = "none"
    /\ pollPc = "none"
    /\ pubStreamId = 0
    /\ subStreamId = 0
    /\ i = 0
    /\ backPressureCount = 0
    /\ bufferClaim = << >>
    /\ claims = {}
    /\ committed = << >>
    /\ failedClaims = 0
    /\ claimAttempted = FALSE
    /\ runNo = 0
    /\ mainResets = 0
    /\ mainReports = 0
    /\ reportedRatio = NoRatio
    /\ available = 0
    /\ slept = 0
    /\ pollStarts = 0
    /\ callback = NoCallback
    /\ printedIn = {}
    /\ cleanupLog = << >>

\* a rate line printed without looking at printingActive
printRate_Unconditional(saw, phase) == printedIn \cup {phase}

(***************************************************************************)
(* printRate, lines 105-113: a line is printed if printingActive was read  *)
(* as true.  `saw` is the value read, `phase` where main was at the read.  *)
(***************************************************************************)
printRate(saw, phase) == IF saw THEN printedIn \cup {phase} ELSE printedIn

(***************************************************************************)
(* The main thread.                                                        *)
(***************************************************************************)
\* lines 146, 317-322: parse the command line
MainParse ==
    /\ mainPc = "parse"
    /\ LET r == parseCmdLine(cmdLine)
       IN  /\ settings' = r.settings
           /\ mainPc' = IF r.status = "ok" THEN "connect"
                        ELSE IF r.status = "help" THEN "exited" ELSE "returned"
           /\ exitCode' = IF r.status = "ok" THEN exitCode
                          ELSE IF r.status = "help" THEN 0 ELSE -1
    /\ UNCHANGED << inputVars, exception, errorReported, running, printingActive,
                    halt, threadVars, streamVars, sendVars, runVars, pollVars,
                    printVars, cleanupLog >>

\* lines 188-205, 323-332: connect, install the handler, add the subscription
\* and the publication; the library may throw
MainConnect ==
    /\ mainPc = "connect"
    /\ \E ok \in BOOLEAN :
         IF ok
         THEN /\ subStreamId' = settings.sStreamId
              /\ pubStreamId' = settings.pStreamId
              /\ mainPc' = "checkLength"
              /\ UNCHANGED << exitCode, exception >>
         ELSE /\ mainPc' = "returned"
              /\ exitCode' = -1
              /\ exception' = TRUE
              /\ UNCHANGED streamVars
    /\ UNCHANGED << inputVars, settings, errorReported, running, printingActive,
                    halt, threadVars, sendVars, runVars, pollVars, printVars,
                    cleanupLog >>

\* the length never compared with the limit
MainCheckLength_Unchecked ==
    /\ mainPc = "checkLength"
    /\ IF FALSE
       THEN /\ errorReported' = TRUE
            /\ exitCode' = -1
            /\ mainPc' = "returned"
       ELSE /\ mainPc' = "startReporter"
            /\ UNCHANGED << errorReported, exitCode >>
    /\ UNCHANGED << inputVars, settings, exception, running, printingActive, halt,
                    threadVars, streamVars, sendVars, runVars, pollVars, printVars,
                    cleanupLog >>

\* lines 207-213: the tryClaim limit
MainCheckLength ==
    /\ mainPc = "checkLength"
    /\ IF settings.messageLength > maxPayloadLength
       THEN /\ errorReported' = TRUE
            /\ exitCode' = -1
            /\ mainPc' = "returned"
       ELSE /\ mainPc' = "startReporter"
            /\ UNCHANGED << errorReported, exitCode >>
    /\ UNCHANGED << inputVars, settings, exception, running, printingActive, halt,
                    threadVars, streamVars, sendVars, runVars, pollVars, printVars,
                    cleanupLog >>

\* lines 243-246: the optional rate-reporter thread
MainStartReporter ==
    /\ mainPc = "startReporter"
    /\ IF settings.progress
       THEN /\ rateReporterThread' = "joinable"
            /\ reporterPc' = "run"
       ELSE UNCHANGED << rateReporterThread, reporterPc >>
    /\ mainPc' = "startPoll"
    /\ UNCHANGED << inputVars, settings, exitCode, exception, errorReported,
                    running, printingActive, halt, pollThread, pollPc, pollStarts,
                    streamVars, sendVars, runVars, pollVars, printVars, cleanupLog >>

\* lines 248-272: the poll thread is created
MainStartPoll ==
    /\ mainPc = "startPoll"
    /\ pollThread' = "joinable"
    /\ pollPc' = "test"
    /\ pollStarts' = pollStarts + 1
    /\ mainPc' = "runStart"
    /\ UNCHANGED << inputVars, settings, exitCode, exception, errorReported,
                    running, printingActive, halt, rateReporterThread, reporterPc,
                    streamVars, sendVars, runVars, pollVars, printVars, cleanupLog >>

\* the counter declared outside the do loop
MainRunStart_CountKept ==
    /\ mainPc = "runStart"
    /\ bufferClaim' = << >>
    /\ backPressureCount' = backPressureCount
    /\ failedClaims' = 0
    /\ committed' = << >>
    /\ printingActive' = TRUE
    /\ mainResets' = IF rateReporterThread = "null" THEN mainResets + 1 ELSE mainResets
    /\ i' = 0
    /\ runNo' = runNo + 1
    /\ mainPc' = "loopTest"
    /\ UNCHANGED << inputVars, settings, exitCode, exception, errorReported,
                    running, halt, threadVars, streamVars, claims, claimAttempted,
                    mainReports, reportedRatio, pollVars, printVars, cleanupLog >>

\* lines 276-286 (up to the loop's initialisation): a send run starts
MainRunStart ==
    /\ mainPc = "runStart"
    /\ bufferClaim' = << >>
    /\ backPressureCount' = 0
    /\ failedClaims' = 0
    /\ committed' = << >>
    /\ printingActive' = TRUE
    /\ mainResets' = IF rateReporterThread = "null" THEN mainResets + 1 ELSE mainResets
    /\ i' = 0
    /\ runNo' = runNo + 1
    /\ mainPc' = "loopTest"
    /\ UNCHANGED << inputVars, settings, exitCode, exception, errorReported,
                    running, halt, threadVars, streamVars, claims, claimAttempted,
                    mainReports, reportedRatio, pollVars, printVars, cleanupLog >>

\* line 286: i < settings.numberOfMessages && isRunning()
MainLoopTest ==
    /\ mainPc = "loopTest"
    /\ mainPc' = IF i < settings.numberOfMessages /\ running THEN "tryClaim"
                 ELSE "report"
    /\ UNCHANGED << inputVars, settings, exitCode, exception, errorReported,
                    running, printingActive, halt, threadVars, streamVars,
                    sendVars, runVars, pollVars, printVars, cleanupLog >>

\* an exception leaving main without the cleanup
MainTryClaim_NoCleanup ==
    /\ mainPc = "tryClaim"
    /\ claimAttempted' = TRUE
    /\ \E result \in {"claimed", "backPressure", "throw"} :
         CASE result = "claimed" ->
                /\ bufferClaim' = <<runNo, i>>
                /\ claims' = claims \cup
                     {[id |-> <<runNo, i>>, len |-> settings.messageLength, val |-> -1]}
                /\ mainPc' = "write"
                /\ UNCHANGED << backPressureCount, failedClaims, exception >>
           [] result = "backPressure" ->
                /\ backPressureCount' = Inc(backPressureCount)
                /\ failedClaims' = Inc(failedClaims)
                /\ mainPc' = "idle"
                /\ UNCHANGED << bufferClaim, claims, exception >>
           [] result = "throw" ->
                /\ exception' = TRUE
                /\ mainPc' = "return"
                /\ UNCHANGED << bufferClaim, claims, backPressureCount, failedClaims >>
    /\ UNCHANGED << inputVars, settings, exitCode, errorReported, running,
                    printingActive, halt, threadVars, streamVars, i, committed,
                    runVars, pollVars, printVars, cleanupLog >>

\* lines 288-291: tryClaim succeeds, fails (back pressure) or throws
MainTryClaim ==
    /\ mainPc = "tryClaim"
    /\ claimAttempted' = TRUE
    /\ \E result \in {"claimed", "backPressure", "throw"} :
         CASE result = "claimed" ->
                /\ bufferClaim' = <<runNo, i>>
                /\ claims' = claims \cup
                     {[id |-> <<runNo, i>>, len |-> settings.messageLength, val |-> -1]}
                /\ mainPc' = "write"
                /\ UNCHANGED << backPressureCount, failedClaims, exception >>
           [] result = "backPressure" ->
                /\ backPressureCount' = Inc(backPressureCount)
                /\ failedClaims' = Inc(failedClaims)
                /\ mainPc' = "idle"
                /\ UNCHANGED << bufferClaim, claims, exception >>
           [] result = "throw" ->
                /\ exception' = TRUE
                /\ mainPc' = "tidy"
                /\ UNCHANGED << bufferClaim, claims, backPressureCount, failedClaims >>
    /\ UNCHANGED << inputVars, settings, exitCode, errorReported, running,
                    printingActive, halt, threadVars, streamVars, i, committed,
                    runVars, pollVars, printVars, cleanupLog >>

\* line 292: offerIdleStrategy.idle(), then tryClaim again
MainIdle ==
    /\ mainPc = "idle"
    /\ mainPc' = "tryClaim"
    /\ UNCHANGED << inputVars, settings, exitCode, exception, errorReported,
                    running, printingActive, halt, threadVars, streamVars,
                    sendVars, runVars, pollVars, printVars, cleanupLog >>

\* the index written counted from 1
MainWrite_OneBased ==
    /\ mainPc = "write"
    /\ claims' = { IF c.id = bufferClaim THEN [c EXCEPT !.val = i + 1] ELSE c : c \in claims }
    /\ mainPc' = "commit"
    /\ UNCHANGED << inputVars, settings, exitCode, exception, errorReported,
                    running, printingActive, halt, threadVars, streamVars, i,
                    backPressureCount, bufferClaim, committed, failedClaims,
                    claimAttempted, runVars, pollVars, printVars, cleanupLog >>

\* line 295: putInt64(offset, i) into the claimed range
MainWrite ==
    /\ mainPc = "write"
    /\ claims' = { IF c.id = bufferClaim THEN [c EXCEPT !.val = i] ELSE c : c \in claims }
    /\ mainPc' = "commit"
    /\ UNCHANGED << inputVars, settings, exitCode, exception, errorReported,
                    running, printingActive, halt, threadVars, streamVars, i,
                    backPressureCount, bufferClaim, committed, failedClaims,
                    claimAttempted, runVars, pollVars, printVars, cleanupLog >>

\* the loop advances without committing the claim
MainCommit_NotCommitted ==
    /\ mainPc = "commit"
    /\ \E c \in claims :
         /\ c.id = bufferClaim
         /\ committed' = Append(committed, [len |-> c.len, val |-> c.val])
         /\ claims' = claims
    /\ bufferClaim' = << >>
    /\ i' = i + 1
    /\ mainPc' = "loopTest"
    /\ UNCHANGED << inputVars, settings, exitCode, exception, errorReported,
                    running, printingActive, halt, threadVars, streamVars,
                    backPressureCount, failedClaims, claimAttempted, runVars,
                    pollVars, printVars, cleanupLog >>

\* lines 296, 286: bufferClaim.commit(); i++
MainCommit ==
    /\ mainPc = "commit"
    /\ \E c \in claims :
         /\ c.id = bufferClaim
         /\ committed' = Append(committed, [len |-> c.len, val |-> c.val])
         /\ claims' = claims \ {c}
    /\ bufferClaim' = << >>
    /\ i' = i + 1
    /\ mainPc' = "loopTest"
    /\ UNCHANGED << inputVars, settings, exitCode, exception, errorReported,
                    running, printingActive, halt, threadVars, streamVars,
                    backPressureCount, failedClaims, claimAttempted, runVars,
                    pollVars, printVars, cleanupLog >>

\* the main thread reporting whether or not a reporter thread exists
MainReport_Always ==
    /\ mainPc = "report"
    /\ IF TRUE
       THEN /\ mainReports' = mainReports + 1
            /\ printedIn' = printRate(printingActive, MainPhase)
       ELSE UNCHANGED << mainReports, printedIn >>
    /\ mainPc' = "ratio"
    /\ UNCHANGED << inputVars, settings, exitCode, exception, errorReported,
                    running, printingActive, halt, threadVars, streamVars,
                    sendVars, runNo, mainResets, reportedRatio, pollVars, callback,
                    cleanupLog >>

\* lines 299-302: without a reporter thread the main thread reports
MainReport ==
    /\ mainPc = "report"
    /\ IF rateReporterThread = "null"
       THEN /\ mainReports' = mainReports + 1
            /\ printedIn' = printRate(printingActive, MainPhase)
       ELSE UNCHANGED << mainReports, printedIn >>
    /\ mainPc' = "ratio"
    /\ UNCHANGED << inputVars, settings, exitCode, exception, errorReported,
                    running, printingActive, halt, threadVars, streamVars,
                    sendVars, runNo, mainResets, reportedRatio, pollVars, callback,
                    cleanupLog >>

\* lines 304-305: the back pressure ratio
MainRatio ==
    /\ mainPc = "ratio"
    /\ reportedRatio' = Ratio(backPressureCount, settings.numberOfMessages)
    /\ mainPc' = "lingerTest"
    /\ UNCHANGED << inputVars, settings, exitCode, exception, errorReported,
                    running, printingActive, halt, threadVars, streamVars,
                    sendVars, runNo, mainResets, mainReports, pollVars, printVars,
                    cleanupLog >>

\* line 307: isRunning() && settings.lingerTimeoutMs > 0
MainLingerTest ==
    /\ mainPc = "lingerTest"
    /\ mainPc' = IF running /\ settings.lingerTimeoutMs > 0 THEN "linger" ELSE "endRun"
    /\ UNCHANGED << inputVars, settings, exitCode, exception, errorReported,
                    running, printingActive, halt, threadVars, streamVars,
                    sendVars, runVars, pollVars, printVars, cleanupLog >>

\* lines 309-310: the linger sleep ends
MainLinger ==
    /\ mainPc = "linger"
    /\ mainPc' = "endRun"
    /\ UNCHANGED << inputVars, settings, exitCode, exception, errorReported,
                    running, printingActive, halt, threadVars, streamVars,
                    sendVars, runVars, pollVars, printVars, cleanupLog >>

\* line 313: printingActive = false
MainEndRun ==
    /\ mainPc = "endRun"
    /\ printingActive' = FALSE
    /\ mainPc' = "againTest"
    /\ UNCHANGED << inputVars, settings, exitCode, exception, errorReported,
                    running, halt, threadVars, streamVars, sendVars, runVars,
                    pollVars, printVars, cleanupLog >>

\* line 315, left operand: isRunning()
MainAgainTest ==
    /\ mainPc = "againTest"
    /\ mainPc' = IF running THEN "prompt" ELSE "tidy"
    /\ UNCHANGED << inputVars, settings, exitCode, exception, errorReported,
                    running, printingActive, halt, threadVars, streamVars,
                    sendVars, runVars, pollVars, printVars, cleanupLog >>

\* line 315, right operand: continuationBarrier("Execute again?")
MainPrompt ==
    /\ mainPc = "prompt"
    /\ \E answer \in BOOLEAN :
         /\ answer => runNo < MaxRuns
         /\ mainPc' = IF answer THEN "runStart" ELSE "tidy"
    /\ UNCHANGED << inputVars, settings, exitCode, exception, errorReported,
                    running, printingActive, halt, threadVars, streamVars,
                    sendVars, runVars, pollVars, printVars, cleanupLog >>

\* lines 224-229: the scope-exit cleanup begins
MainTidy ==
    /\ mainPc = "tidy"
    /\ running' = FALSE
    /\ halt' = TRUE
    /\ cleanupLog' = cleanupLog \o <<"running=false", "halt">>
    /\ mainPc' = "joinPoll"
    /\ UNCHANGED << inputVars, settings, exitCode, exception, errorReported,
                    printingActive, threadVars, streamVars, sendVars, runVars,
                    pollVars, printVars >>

\* lines 230-234: join the poll thread (join returns when the thread ended)
MainJoinPoll ==
    /\ mainPc = "joinPoll"
    /\ IF pollThread = "joinable"
       THEN /\ pollPc = "done"
            /\ pollThread' = "null"
            /\ cleanupLog' = Append(cleanupLog, "joinPoll")
       ELSE UNCHANGED << pollThread, cleanupLog >>
    /\ mainPc' = "joinReporter"
    /\ UNCHANGED << inputVars, settings, exitCode, exception, errorReported,
                    running, printingActive, halt, rateReporterThread, reporterPc,
                    pollPc, pollStarts, streamVars, sendVars, runVars, pollVars,
                    printVars >>

\* lines 236-240: join the rate-reporter thread
MainJoinReporter ==
    /\ mainPc = "joinReporter"
    /\ IF rateReporterThread = "joinable"
       THEN /\ reporterPc = "done"
            /\ rateReporterThread' = "null"
            /\ cleanupLog' = Append(cleanupLog, "joinReporter")
       ELSE UNCHANGED << rateReporterThread, cleanupLog >>
    /\ mainPc' = "return"
    /\ UNCHANGED << inputVars, settings, exitCode, exception, errorReported,
                    running, printingActive, halt, pollThread, reporterPc, pollPc,
                    pollStarts, streamVars, sendVars, runVars, pollVars, printVars >>

\* lines 323-334: return -1 from a handler, or return 0
MainReturn ==
    /\ mainPc = "return"
    /\ exitCode' = IF exception THEN -1 ELSE 0
    /\ mainPc' = "returned"
    /\ UNCHANGED << inputVars, settings, exception, errorReported, running,
                    printingActive, halt, threadVars, streamVars, sendVars,
                    runVars, pollVars, printVars, cleanupLog >>

Main ==
    \/ MainParse \/ MainConnect \/ MainCheckLength \/ MainStartReporter
    \/ MainStartPoll \/ MainRunStart \/ MainLoopTest \/ MainTryClaim \/ MainIdle
    \/ MainWrite \/ MainCommit \/ MainReport \/ MainRatio \/ MainLingerTest
    \/ MainLinger \/ MainEndRun \/ MainAgainTest \/ MainPrompt \/ MainTidy
    \/ MainJoinPoll \/ MainJoinReporter \/ MainReturn

\* the poll loop ending when the sender is between runs
PollTest_WhilePrinting ==
    /\ pollPc = "test"
    /\ pollPc' = IF running /\ (printingActive \/ runNo = 0) THEN "poll" ELSE "done"
    /\ UNCHANGED << inputVars, settings, mainPc, exitCode, exception,
                    errorReported, running, printingActive, halt,
                    rateReporterThread, pollThread, reporterPc, pollStarts,
                    streamVars, sendVars, runVars, pollVars, printVars, cleanupLog >>

(***************************************************************************)
(* The poll thread, lines 249-272.                                         *)
(***************************************************************************)
\* lines 256, 264: while (isRunning())
PollTest ==
    /\ pollPc = "test"
    /\ pollPc' = IF running THEN "poll" ELSE "done"
    /\ UNCHANGED << inputVars, settings, mainPc, exitCode, exception,
                    errorReported, running, printingActive, halt,
                    rateReporterThread, pollThread, reporterPc, pollStarts,
                    streamVars, sendVars, runVars, pollVars, printVars, cleanupLog >>

\* lines 258-259, 266-267: poll(handler, settings.fragmentCountLimit), idle,
\* then sleep_for(microseconds(...))
PollPoll ==
    /\ pollPc = "poll"
    /\ available' = available - Min(available, settings.fragmentCountLimit)
    /\ slept' = IF settings.subscriptionDelay # 0 THEN settings.subscriptionDelay ELSE 0
    /\ pollPc' = "test"
    /\ UNCHANGED << inputVars, settings, mainPc, exitCode, exception,
                    errorReported, running, printingActive, halt,
                    rateReporterThread, pollThread, reporterPc, pollStarts,
                    streamVars, sendVars, runVars, printVars, cleanupLog >>

Poll == PollTest \/ PollPoll

(***************************************************************************)
(* The rate-reporter thread, line 245: rateReporter.run() calls printRate  *)
(* (line 218) once per interval until the reporter is halted.              *)
(***************************************************************************)
\* the interval elapsed: printRate is entered and reads printingActive
ReporterFire ==
    /\ reporterPc = "run"
    /\ ~halt
    /\ callback' = [saw |-> printingActive, phase |-> MainPhase]
    /\ reporterPc' = "print"
    /\ UNCHANGED << inputVars, settings, mainPc, exitCode, exception,
                    errorReported, running, printingActive, halt,
                    rateReporterThread, pollThread, pollPc, pollStarts,
                    streamVars, sendVars, runVars, pollVars, printedIn,
                    cleanupLog >>

\* printRate prints, or not, and returns
ReporterPrint ==
    /\ reporterPc = "print"
    /\ printedIn' = printRate(callback.saw, callback.phase)
    /\ callback' = NoCallback
    /\ reporterPc' = "run"
    /\ UNCHANGED << inputVars, settings, mainPc, exitCode, exception,
                    errorReported, running, printingActive, halt,
                    rateReporterThread, pollThread, pollPc, pollStarts,
                    streamVars, sendVars, runVars, pollVars, cleanupLog >>

\* run() sees the halt and returns
ReporterExit ==
    /\ reporterPc = "run"
    /\ halt
    /\ reporterPc' = "done"
    /\ UNCHANGED << inputVars, settings, mainPc, exitCode, exception,
                    errorReported, running, printingActive, halt,
                    rateReporterThread, pollThread, pollPc, pollStarts,
                    streamVars, sendVars, runVars, pollVars, printVars,
                    cleanupLog >>

Reporter == ReporterFire \/ ReporterPrint \/ ReporterExit

(***************************************************************************)
(* The environment.                                                        *)
(***************************************************************************)
\* lines 34-37, 189: SIGINT once the handler is installed
sigIntHandler ==
    /\ mainPc \notin {"parse", "connect"} \cup EndPcs
    /\ running' = FALSE
    /\ UNCHANGED << inputVars, settings, mainPc, exitCode, exception,
                    errorReported, printingActive, halt, threadVars, streamVars,
                    sendVars, runVars, pollVars, printVars, cleanupLog >>

\* a fragment arrives at the subscription
Arrive ==
    /\ subStreamId # 0
    /\ mainPc \notin EndPcs
    /\ available < MaxAvailable
    /\ available' = available + 1
    /\ UNCHANGED << inputVars, settings, mainPc, exitCode, exception,
                    errorReported, running, printingActive, halt, threadVars,
                    streamVars, sendVars, runVars, slept, printVars, cleanupLog >>

Next ==
    \/ MainParse \/ MainConnect \/ MainCheckLength \/ MainStartReporter
    \/ MainStartPoll \/ MainRunStart \/ MainLoopTest \/ MainTryClaim \/ MainIdle
    \/ MainWrite \/ MainCommit \/ MainReport \/ MainRatio \/ MainLingerTest
    \/ MainLinger \/ MainEndRun \/ MainAgainTest \/ MainPrompt \/ MainTidy
    \/ MainJoinPoll \/ MainJoinReporter \/ MainReturn
    \/ PollTest \/ PollPoll
    \/ ReporterFire \/ ReporterPrint \/ ReporterExit
    \/ sigIntHandler \/ Arrive

Spec == Init /\ [][Next]_vars

(***************************************************************************)
(* Every thread that can take a step eventually takes one, and the user    *)
(* at the prompt eventually answers.  Nothing is assumed of the library:   *)
(* tryClaim may fail every time it is called.                              *)
(***************************************************************************)
FairSpec ==
    /\ Init /\ [][Next]_vars
    /\ WF_vars(Main)
    /\ WF_vars(Poll)
    /\ WF_vars(Reporter)

(***************************************************************************)
(* Properties.                                                             *)
(***************************************************************************)
\* the first n messages of a send run: length messageLength, values 0..n-1
Expected(n) == [k \in 1..n |-> [len |-> settings.messageLength, val |-> k - 1]]

LoopPcs == { "loopTest", "tryClaim", "idle", "write", "commit" }
AfterLoopPcs == { "report", "ratio", "lingerTest", "linger", "endRun", "againTest", "prompt" }
AfterRatioPcs == { "lingerTest", "linger", "endRun", "againTest", "prompt" }
StartedPcs == { "runStart" } \cup RunPcs \cup { "againTest", "prompt" }

\* C1: in a send run the messages committed so far are, in order, the
\* indices 0, 1, 2, ... each of length messageLength, and when the send loop
\* has ended with the running flag still true exactly numberOfMessages of
\* them were committed, whatever number of tryClaim calls failed.
C1_SendRunCommitsEveryIndex ==
    /\ Len(committed) <= settings.numberOfMessages
    /\ committed = Expected(Len(committed))
    /\ (mainPc \in AfterLoopPcs /\ running) =>
           committed = Expected(settings.numberOfMessages)

C1_Witness ==
    /\ mainPc = "report"
    /\ running
    /\ Len(committed) = 2
    /\ failedClaims >= 1

\* C2: once the poll thread has been started and the running flag is false,
\* the poll thread leaves its loop and the main thread returns (having run
\* the cleanup and joined the threads), also when the flag is flipped while
\* the main thread retries a failed tryClaim.
C2_CooperativeShutdown ==
    (pollPc # "none" /\ ~running) ~> (pollPc = "done" /\ mainPc = "returned")

\* C3: when main has returned after a worker thread was started, the cleanup
\* has set running to false, halted the reporter, joined the poll thread and
\* then the reporter thread if there is one, in that order; no thread is
\* left joinable, and a return after an exception returns a non-zero code.
C3_CleanupBeforeReturn ==
    (mainPc = "returned" /\ (pollPc # "none" \/ reporterPc # "none")) =>
        /\ ~running
        /\ halt
        /\ pollThread = "null" /\ pollPc = "done"
        /\ rateReporterThread = "null" /\ reporterPc \in {"none", "done"}
        /\ cleanupLog = IF reporterPc = "none"
                        THEN <<"running=false", "halt", "joinPoll">>
                        ELSE <<"running=false", "halt", "joinPoll", "joinReporter">>
        /\ exception => exitCode # 0

C3_Witness ==
    /\ mainPc = "returned"
    /\ exception
    /\ pollStarts = 1
    /\ reporterPc = "done"
    /\ exitCode = -1

\* C4: when messageLength is greater than maxPayloadLength the program has,
\* once past the check, reported the error and returned a non-zero code with
\* no worker thread started and no tryClaim attempted; the error is reported
\* only when messageLength is greater than maxPayloadLength.
C4_LengthLimit ==
    /\ (pubStreamId # 0 /\ mainPc # "checkLength"
          /\ settings.messageLength > maxPayloadLength) =>
           /\ mainPc = "returned"
           /\ errorReported
           /\ exitCode # 0 /\ exitCode # 1
           /\ pollPc = "none" /\ reporterPc = "none"
           /\ ~claimAttempted
    /\ errorReported => settings.messageLength > maxPayloadLength

C4_Witness ==
    /\ mainPc = "returned"
    /\ errorReported
    /\ settings.messageLength = 2 * SIZEOF_INT64
    /\ maxPayloadLength = SIZEOF_INT64

\* the command lines that give any of the stream id options, and nothing else
StreamIdCmdLines == UNION { GivenOn(S) : S \in SUBSET {pOptStreamId, sOptStreamId} }

\* C5: the stream ids passed to addPublication and addSubscription are the
\* settings' pStreamId and sStreamId, and for every pair of valid stream
\* ids (p, s) some command line parses into pStreamId = p and sStreamId = s.
C5_StreamIdsIndependent ==
    pubStreamId # 0 =>
        /\ pubStreamId = settings.pStreamId
        /\ subStreamId = settings.sStreamId
        /\ \A p, s \in 1..MaxStreamId :
             \E cl \in StreamIdCmdLines :
               LET r == parseCmdLine(cl)
               IN  /\ r.status = "ok"
                   /\ r.settings.pStreamId = p
                   /\ r.settings.sStreamId = s

\* C6: the back pressure counter equals the number of failed tryClaim calls
\* of the current send run; while a claim is tried, retried or written the
\* message index is the number of messages committed so far; and the ratio
\* reported at the end of a run is that counter over numberOfMessages.
C6_BackPressureCount ==
    /\ backPressureCount = failedClaims
    /\ mainPc \in {"tryClaim", "idle", "write", "commit"} =>
           i = Len(committed) /\ i < settings.numberOfMessages
    /\ mainPc = "idle" => failedClaims >= 1
    /\ mainPc \in AfterRatioPcs =>
           reportedRatio = Ratio(failedClaims, settings.numberOfMessages)

C6_Witness ==
    /\ mainPc = "lingerTest"
    /\ runNo = 2
    /\ failedClaims = 1
    /\ ~running
    /\ Len(committed) < settings.numberOfMessages
    /\ reportedRatio.kind = "num"

\* C7: once past the point where it is created, the reporter thread exists
\* if and only if the progress flag was given; with it the thread runs until
\* the cleanup halts it and the main thread never resets or reports; without
\* it the main thread has reset once per send run started and reported once
\* per send run whose loop has ended.
C7_OptionalReporter ==
    /\ mainPc \in StartedPcs \cup {"startPoll"} =>
           /\ (reporterPc # "none") = settings.progress
           /\ (rateReporterThread = "joinable") = settings.progress
    /\ reporterPc # "none" =>
           /\ settings.progress
           /\ mainResets = 0 /\ mainReports = 0
           /\ reporterPc = "done" => halt
           /\ mainPc \in StartedPcs => reporterPc \in {"run", "print"}
    /\ reporterPc = "none" =>
           /\ rateReporterThread = "null"
           /\ mainResets = runNo
           /\ mainReports = IF mainPc \in LoopPcs \cup {"report"}
                                 \/ (exception /\ runNo > 0)
                            THEN runNo - 1 ELSE runNo

C7_Witness ==
    /\ settings.progress
    /\ reporterPc = "print"
    /\ mainPc = "ratio"
    /\ runNo = 2
    /\ mainReports = 0

\* C8: the poll thread is created once, before the first send run; it is in
\* its loop for as long as running is true, wherever the main thread is, and
\* has ended only if running is false; a poll takes at most
\* fragmentCountLimit fragments and, when subscriptionDelay is greater than
\* 0, is followed by a sleep of subscriptionDelay microseconds.
C8_PollInv ==
    /\ pollStarts <= 1
    /\ mainPc \in StartedPcs => pollStarts = 1
    /\ pollPc = "done" => ~running
    /\ (pollPc # "none" /\ running) => pollPc \in {"test", "poll"}
    /\ slept \in {0, settings.subscriptionDelay}

C8_PollStep ==
    (pollPc = "poll" /\ pollPc' # "poll") =>
        /\ available - available' <= settings.fragmentCountLimit
        /\ settings.subscriptionDelay > 0 => slept' = settings.subscriptionDelay

C8_PollThread == []C8_PollInv /\ [][C8_PollStep]_vars

C8_Witness ==
    /\ mainPc = "prompt"
    /\ runNo = 2
    /\ running
    /\ pollPc = "poll"
    /\ slept = 1
    /\ available = MaxAvailable

\* C10: printingActive is false before the first send run and between send
\* runs and true from the start of a run through the loop and the linger; a
\* reporter callback that fires before the first run or at the prompt prints
\* nothing; the linger is entered only with running true and lingerTimeoutMs
\* greater than 0; the prompt is reached only with running true, and a
\* further send run starts only from the prompt.
C10_PrintInv ==
    /\ MainPhase \in {"before", "prompt"} => ~printingActive
    /\ mainPc \in RunPcs => printingActive
    /\ printedIn \cap {"before", "prompt"} = {}
    /\ mainPc = "linger" => settings.lingerTimeoutMs > 0

C10_RunStep ==
    /\ (mainPc # "linger" /\ mainPc' = "linger") => running
    /\ (mainPc # "prompt" /\ mainPc' = "prompt") => running
    /\ (mainPc # "runStart" /\ mainPc' = "runStart" /\ runNo > 0) => mainPc = "prompt"

C9_OneOutstandingClaim ==
    /\ Cardinality(claims) <= 1
    /\ mainPc \notin {"write", "commit"} => claims = {} /\ bufferClaim = << >>
    /\ mainPc \in {"write", "commit"} => \E c \in claims : c.id = bufferClaim

C9_Witness ==
    /\ mainPc = "report"
    /\ ~running
    /\ Len(committed) = 1
    /\ settings.numberOfMessages = 2
    /\ claims = {}

====
